---- MODULE Spec2Model ----
(***************************************************************************)
(* Model of the healthsecure workflow: scanRepo (healthTool.execute: URL   *)
(* validation, package.json fetch with retry, OSV lookup loop) followed by *)
(* explainVulnerabilities (fixed diagnostic or streamed narrator report).  *)
(*                                                                         *)
(* Text is a sequence of strings.  Text the code inspects character by     *)
(* character (the repository URL, a declared version) is a sequence of     *)
(* one-character strings; a literal of a template string is one element.   *)
(* Every await of the code is a position of pc; an action is the code      *)
(* that runs between two awaits.                                           *)
(***************************************************************************)
EXTENDS Integers, Sequences, FiniteSets, TLC

VARIABLES
    pc,           \* position of the run (which await it is suspended at)
    inputUrl,     \* inputData.repoUrl, the workflow input
    served,       \* the body the raw-content endpoint answers a successful GET with
    repoUrl,      \* healthTool: let repoUrl (sanitized, trailing slash added)
    packageUrl,   \* healthTool: const packageUrl
    retries,      \* healthTool: let retries
    json,         \* healthTool: let json
    limitedDeps,  \* healthTool: const limitedDeps
    depIdx,       \* position of the for..of loop in limitedDeps (0: not started)
    findings,     \* healthTool: const findings
    scanResult,   \* what scanRepo returned (the input of explainVulnerabilities)
    report,       \* explainVulnerabilities: let report / the returned {report}
    stdout,       \* what process.stdout.write received
    osv,          \* the vulnerability database of this run: package -> response data
    getUrls,      \* history: the URL of every GET issued
    getAnswers,   \* history: the answer to every GET: Ok or the error thrown
    queried,      \* history: the package of every dependency a POST was issued for
    postsThisDep, \* history: POSTs issued for the current dependency
    okThisDep,    \* history: a POST for the current dependency was answered 2xx
    okDeps,       \* history: indexes of limitedDeps whose POST was answered 2xx with a body
    postCount,    \* history: POSTs issued in the run
    postsAnswered,\* history: POSTs that were answered (resolved or rejected)
    lastPostAnswer,\* history: the answer to the latest POST: Ok or the error caught
    narratorCalls,\* history: calls of healthAgent.stream
    narratorInput,\* history: the findings embedded in the narrator's prompt
    chunks,       \* history: fragments the narrator's textStream delivered, in order
    faults        \* history: requests that did not end in a usable answer

vars == << pc, inputUrl, served, repoUrl, packageUrl, retries, json, limitedDeps, depIdx,
           findings, scanResult, report, stdout, osv, getUrls, getAnswers, queried,
           postsThisDep, okThisDep, okDeps, postCount, postsAnswered, lastPostAnswer,
           narratorCalls, narratorInput, chunks, faults >>

(***************************************************************************)
(* Bounds of the model and constants of the program                        *)
(***************************************************************************)
MaxDeps == 11          \* entries of the longest manifest served
MaxFaults == 3         \* failed requests in one run
MaxChunks == 2         \* fragments of one narrator stream

FetchAttempts == 3     \* let retries = 3 (package.json)
OsvAttemptsFour == 3 + 1
OsvAttempts == 3       \* retries = 3 (OSV)
DepsCap == 10          \* slice(0, 10)
GatewayTimeout == 504
TooManyRequests == 429

(***************************************************************************)
(* Text                                                                    *)
(***************************************************************************)
Slash == <<"/">>
Https == <<"h","t","t","p","s",":","/","/">>
GithubCom == <<"g","i","t","h","u","b",".","c","o","m">>
ExampleOrg == <<"e","x",".","o","r","g">>
Dot3js == <<".","3","j","s">>

\* s[from..] starts with the text p
StartsAt(s, from, p) ==
    /\ from + Len(p) - 1 <= Len(s)
    /\ \A k \in 1..Len(p) : s[from + k - 1] = p[k]

EndsWith(s, p) == Len(s) >= Len(p) /\ StartsAt(s, Len(s) - Len(p) + 1, p)

\* the text t occurs in s as a contiguous run of elements
Contains(s, t) == \E from \in 1..(Len(s) + 1) : StartsAt(s, from, t)

\* String.prototype.replace(ch, ""): only the first occurrence is removed
ReplaceFirst(s, ch) ==
    IF \E k \in 1..Len(s) : s[k] = ch
    THEN LET k == CHOOSE k \in 1..Len(s) : s[k] = ch /\ \A j \in 1..(k - 1) : s[j] # ch
         IN  SubSeq(s, 1, k - 1) \o SubSeq(s, k + 1, Len(s))
    ELSE s

(***************************************************************************)
(* sanitizeInput: replace(/[<>{}\[\];]/g, "").replace(/\.3js$/, "")        *)
(***************************************************************************)
StrippedChars == {"<", ">", "{", "}", "[", "]", ";"}

sanitizeInput(input) ==
    LET kept == SelectSeq(input, LAMBDA c : c \notin StrippedChars)
    IN  IF EndsWith(kept, Dot3js) THEN SubSeq(kept, 1, Len(kept) - Len(Dot3js)) ELSE kept

(***************************************************************************)
(* repoUrl.match(/github\.com\/([^/]+)\/([^/]+)(?:\/([^/]+))?(\/|$)/)      *)
(***************************************************************************)
\* the end of the run of non-slash characters that starts at from (from - 1 if empty)
SegEnd(s, from) ==
    IF \E k \in from..Len(s) : s[k] = "/"
    THEN (CHOOSE k \in from..Len(s) : s[k] = "/" /\ \A j \in from..(k - 1) : s[j] # "/") - 1
    ELSE Len(s)

\* the regular expression matches with "github.com/" starting at position p
MatchesAt(s, p) ==
    LET o1 == p + Len(GithubCom) + 1       \* first character of the owner
        o2 == SegEnd(s, o1)
        r1 == o2 + 2                       \* first character of the repo
        r2 == SegEnd(s, r1)
    IN  /\ StartsAt(s, p, GithubCom \o Slash)
        /\ o2 >= o1                        \* ([^/]+)
        /\ o2 < Len(s)                     \* \/
        /\ r2 >= r1                        \* ([^/]+); the greedy run ends at "/" or at the end

HasMatch(s) == \E p \in 1..Len(s) : MatchesAt(s, p)

\* [owner, repo, branch] of the leftmost match; branch is <<>> when group 3 did not take part
MatchGroups(s) ==
    LET p  == CHOOSE p \in 1..Len(s) : MatchesAt(s, p) /\ \A q \in 1..(p - 1) : ~MatchesAt(s, q)
        o1 == p + Len(GithubCom) + 1
        o2 == SegEnd(s, o1)
        r1 == o2 + 2
        r2 == SegEnd(s, r1)
        b1 == r2 + 2
        b2 == SegEnd(s, b1)
    IN  [owner  |-> SubSeq(s, o1, o2),
         repo   |-> SubSeq(s, r1, r2),
         branch |-> IF r2 < Len(s) /\ b2 >= b1 THEN SubSeq(s, b1, b2) ELSE <<>>]

Master == <<"m","a","s","t","e","r">>
Main == <<"m","a","i","n">>
RawHost == <<"https://raw.githubusercontent.com/">>
PackageJsonPath == <<"/package.json">>

\* `https://raw.githubusercontent.com/${owner}/${repo}/${branch}/package.json`, branch = "main" by default
PackageUrl(m) ==
    RawHost \o m.owner \o Slash \o m.repo \o Slash
            \o (IF m.branch = <<>> THEN Main ELSE m.branch) \o PackageJsonPath


(***************************************************************************)
(* Errors and getErrorMessage                                              *)
(*   kind: "AxiosError" or "Error"; status: error.response?.status, 0 when *)
(*   there is no response; dataMessage: error.response?.data?.message and  *)
(*   message: error.message, <<>> when absent or empty.                    *)
(***************************************************************************)
AxiosErr(status, dataMessage, message) ==
    [kind |-> "AxiosError", status |-> status, dataMessage |-> dataMessage, message |-> message]

PlainErr(message) ==
    [kind |-> "Error", status |-> 0, dataMessage |-> <<>>, message |-> message]

getErrorMessage(error) ==
    IF error.kind = "AxiosError"
    THEN IF error.dataMessage # <<>> THEN error.dataMessage
         ELSE IF error.message # <<>> THEN error.message
         ELSE <<"Unknown Axios error">>
    ELSE error.message

\* no request has been answered yet
Unanswered == [kind |-> "none", status |-> 0, dataMessage |-> <<>>, message |-> <<>>]

\* a 2xx answer, as recorded in the history of answers
Ok == [kind |-> "Response", status |-> 200, dataMessage |-> <<>>, message |-> <<>>]

\* failures of axios.get(packageUrl)
GetErrors ==
    { AxiosErr(GatewayTimeout, <<>>, <<"Request failed with status code 504">>),
      AxiosErr(404, <<>>, <<"Request failed with status code 404">>),
      AxiosErr(500, <<"upstream unavailable">>, <<"Request failed with status code 500">>),
      AxiosErr(0, <<>>, <<"Network Error">>),
      AxiosErr(0, <<>>, <<>>) }

\* failures of axios.post("https://api.osv.dev/v1/query", ...)
PostErrors ==
    { AxiosErr(TooManyRequests, <<>>, <<"Request failed with status code 429">>),
      AxiosErr(500, <<"internal error">>, <<"Request failed with status code 500">>),
      AxiosErr(0, <<>>, <<"timeout of 10000ms exceeded">>) }

\* osvRes.data is null: osvRes.data.vulns throws inside the try block
NullDataError == PlainErr(<<"Cannot read properties of null (reading 'vulns')">>)

(***************************************************************************)
(* Manifests (res.data of the GET) and the merged dependency map           *)
(*   A map is the sequence of its entries in the order they were written   *)
(*   (in the file, or by the spread).                                      *)
(***************************************************************************)
Entry(name, version) == [name |-> name, version |-> version]

PkgNames ==
    << "lodash", "express", "axios", "react", "vue", "jest",
       "mocha", "chalk", "debug", "yargs", "minimist", "uuid", "ws" >>

\* keys that are canonical array indexes, with their numeric value
ArrayIndexValue == ("0" :> 0) @@ ("1" :> 1) @@ ("2" :> 2) @@ ("3" :> 3) @@ ("4" :> 4)
                   @@ ("5" :> 5) @@ ("6" :> 6) @@ ("7" :> 7) @@ ("8" :> 8) @@ ("9" :> 9)

IsArrayIndex(name) == name \in DOMAIN ArrayIndexValue

Min(a, b) == IF a <= b THEN a ELSE b

\* a manifest of n entries, the first half under dependencies, the rest under devDependencies
LongManifest(n) ==
    [kind |-> "object",
     dependencies    |-> [k \in 1..(n \div 2) |-> Entry(PkgNames[k], <<"^", "1.0.0">>)],
     devDependencies |-> [k \in 1..(n - (n \div 2)) |-> Entry(PkgNames[(n \div 2) + k], <<"~", "2.0.0">>)]]

\* the same, its last declared entry being the package named "7"
IndexedManifest(n) ==
    [kind |-> "object",
     dependencies    |-> [k \in 1..(n \div 2) |-> Entry(PkgNames[k], <<"^", "1.0.0">>)],
     devDependencies |-> [k \in 1..(n - (n \div 2)) |->
                             IF k = n - (n \div 2) THEN Entry("7", <<"1.0.0">>)
                             ELSE Entry(PkgNames[(n \div 2) + k], <<"~", "2.0.0">>)]]

LeftPadManifest ==
    [kind |-> "object", dependencies |-> << Entry("left-pad", <<"^", "1.3.0">>) >>]

Manifests ==
    { [kind |-> "empty"],                                        \* an empty body: res.data is falsy
      [kind |-> "object"],                                       \* neither map is declared
      [kind |-> "object", dependencies |-> <<>>, devDependencies |-> <<>>],
      LeftPadManifest,
      [kind |-> "object",
       dependencies    |-> << Entry("lodash", <<"^", "2.1.0">>), Entry("express", <<"~", "1.0.3">>) >>,
       devDependencies |-> << Entry("jest", <<">=1.0.0 || ", "^", "2.0.0">>),
                              Entry("lodash", <<"~", "^", "4.17.21">>) >>],
      LongManifest(MaxDeps),
      IndexedManifest(MaxDeps) }

Field(obj, f) == IF f \in DOMAIN obj THEN obj[f] ELSE <<>>

HasKey(map, name) == \E k \in 1..Len(map) : map[k].name = name

ValueOf(map, name) == (CHOOSE e \in { map[k] : k \in 1..Len(map) } : e.name = name).version

\* { ...json.dependencies, ...json.devDependencies }: a key of both maps keeps the place it
\* has in dependencies and takes the value of devDependencies; the other keys of
\* devDependencies follow in their order
MergeDependencies(j) ==
    [k \in 1..Len(Field(j, "dependencies")) |->
        IF HasKey(Field(j, "devDependencies"), j.dependencies[k].name)
        THEN Entry(j.dependencies[k].name, ValueOf(j.devDependencies, j.dependencies[k].name))
        ELSE j.dependencies[k]]
      \o SelectSeq(Field(j, "devDependencies"),
                   LAMBDA e : ~HasKey(Field(j, "dependencies"), e.name))

\* the entries of map whose key is an array index, in ascending order of the index
SortByIndex(map) ==
    [k \in 1..Len(map) |->
        CHOOSE e \in { map[i] : i \in 1..Len(map) } :
            Cardinality({ f \in { map[i] : i \in 1..Len(map) } :
                            ArrayIndexValue[f.name] < ArrayIndexValue[e.name] }) = k - 1]

\* Object.entries(map): array-index keys in ascending order, then the other keys as written
ObjectEntries(map) ==
    SortByIndex(SelectSeq(map, LAMBDA e : IsArrayIndex(e.name)))
        \o SelectSeq(map, LAMBDA e : ~IsArrayIndex(e.name))

LimitedDepsUncapped(map) ==
    ObjectEntries(map)

\* Object.entries(dependencies).slice(0, 10)
LimitedDeps(map) ==
    SubSeq(ObjectEntries(map), 1, Min(DepsCap, Len(map)))

\* String(versionRaw).replace("^", "").replace("~", "")
NormalizeVersion(versionRaw) ==
    ReplaceFirst(ReplaceFirst(versionRaw, "^"), "~")

\* the body of the POST for one entry of limitedDeps
QueryBody(dep) ==
    [name |-> dep.name, ecosystem |-> "npm", version |-> NormalizeVersion(dep.version)]

(***************************************************************************)
(* The vulnerability database: package name -> osvRes.data                 *)
(***************************************************************************)
AllPkgs == { PkgNames[k] : k \in 1..Len(PkgNames) } \cup { "left-pad", "7" }

Vuln(id, summary) == [id |-> id, summary |-> summary]

\* a response without a vulns field stands for the body {}
CleanDb == [p \in AllPkgs |-> IF p = "lodash" THEN [vulns |-> <<>>] ELSE [none |-> TRUE]]

MixedDb ==
    [p \in AllPkgs |->
        CASE p = "lodash"   -> [vulns |-> << [id |-> "GHSA-p6mc"], Vuln("CVE-2021-23337", <<"Command injection">>) >>]
          [] p = "left-pad" -> [vulns |-> << Vuln("GHSA-left", <<"Padding flaw">>) >>]
          [] p = "express"  -> [vulns |-> << Vuln("GHSA-rv95", <<>>), Vuln("GHSA-qw6h", <<"Open redirect">>) >>]
          [] p = "yargs"    -> [vulns |-> << Vuln("CVE-2020-7608", <<"Prototype pollution">>) >>]
          [] p = "minimist" -> [vulns |-> << Vuln("CVE-2021-44906", <<"Prototype pollution">>) >>]
          [] p = "7"        -> [vulns |-> << Vuln("GHSA-7777", <<"Seven">>) >>]
          [] OTHER          -> [vulns |-> <<>>]]

OsvDatabases == { CleanDb, MixedDb }

\* osvRes.data.vulns || []
Vulns(data) == Field(data, "vulns")

SummaryOfLast(vulns) ==
    IF Field(vulns[Len(vulns)], "summary") # <<>> THEN vulns[Len(vulns)].summary ELSE <<"No summary">>

\* vulns[0]?.summary || "No summary"
Summary(vulns) ==
    IF Field(vulns[1], "summary") # <<>> THEN vulns[1].summary ELSE <<"No summary">>

\* the object pushed onto findings
Finding(dep, vulns) ==
    [package |-> dep.name,
     version |-> NormalizeVersion(dep.version),
     cves    |-> [k \in 1..Len(vulns) |-> vulns[k].id],
     summary |-> Summary(vulns)]


(***************************************************************************)
(* Workflow inputs: well-formed URLs (inputSchema: z.string().url())       *)
(***************************************************************************)
RECURSIVE Path(_)
Path(segs) == IF segs = <<>> THEN <<>> ELSE Slash \o Head(segs) \o Path(Tail(segs))

Url(host, segs) == Https \o host \o Path(segs)

SegA == <<"a">>
SegB == <<"b">>
SegDev == <<"d","e","v">>
SegTree == <<"t","r","e","e">>

RepoUrls ==
    { Url(GithubCom, <<SegA, SegB>>),                       \* https://github.com/a/b
      Url(GithubCom, <<SegA, SegB, <<>> >>),                \* https://github.com/a/b/
      Url(GithubCom, <<SegA, SegB, SegDev>>),               \* https://github.com/a/b/dev
      Url(GithubCom, <<SegDev, SegA>>),                     \* https://github.com/dev/a
      Url(GithubCom, <<SegDev, SegA, <<>> >>),              \* https://github.com/dev/a/
      Url(GithubCom, <<SegA, SegB, SegTree, SegDev>>),      \* https://github.com/a/b/tree/dev
      Url(GithubCom \o <<";">>, <<SegA, SegB>>),            \* https://github.com;/a/b
      Url(GithubCom, <<>>),                                 \* https://github.com
      Url(GithubCom, <<SegA>>),                             \* https://github.com/a
      Url(GithubCom, <<SegA, <<>> >>),                      \* https://github.com/a/
      Url(GithubCom, <<SegA, <<>>, SegB>>),                 \* https://github.com/a//b
      Url(GithubCom, <<SegA, <<";">> >>),                   \* https://github.com/a/;
      Url(GithubCom, <<SegA, Dot3js>>),                     \* https://github.com/a/.3js
      Url(GithubCom, <<<<"[", "]">>, SegB>>),               \* https://github.com/[]/b
      Url(ExampleOrg, <<SegA, SegB>>),                      \* https://ex.org/a/b
      Url(ExampleOrg, <<>>),                                \* https://ex.org
      Url(<<"g","i","t","h","u","b",".","o","r","g">>, <<SegA, SegB>>) } \* https://github.org/a/b

\* the runs explored: every URL against a one-dependency repository, and the plain URL
\* against every manifest and every database
Scenarios ==
    ({ Url(GithubCom, <<SegA, SegB>>) } \X Manifests \X OsvDatabases)
        \cup (RepoUrls \X { LeftPadManifest } \X { MixedDb })

(***************************************************************************)
(* Results and messages                                                    *)
(***************************************************************************)
Pending == [pending |-> TRUE]
Undefined == [kind |-> "undefined"]

\* !json
Falsy(j) == j.kind \in {"undefined", "empty"}

Failure(error) == [findings |-> <<>>, error |-> error]

MissingRepoUrl == <<"Missing repoUrl in input data">>
InvalidRepoUrl(url) == <<"Invalid GitHub repo URL: ">> \o url
FetchFailed(errorMsg) == <<"Failed to fetch package.json", ": ">> \o errorMsg
AfterRetries == <<"Failed to fetch package.json", " after retries">>
NoDependenciesAsSentinel == <<"No vulnerabilities found">>
NoDependencies == <<"No dependencies found in package.json">>
NoVulnerabilities == <<"No vulnerabilities found">>

ScanReturnAlwaysSentinel(f) ==
    [findings |-> f, error |-> <<"No vulnerabilities found">>]

ScanReturnNoSentinel(f) ==
    [findings |-> f]

\* return { findings, error: findings.length === 0 ? "No vulnerabilities found" : undefined }
ScanReturn(f) ==
    IF Len(f) = 0 THEN [findings |-> f, error |-> NoVulnerabilities] ELSE [findings |-> f]

HasErrorOtherThanSentinel(result) ==
    "error" \in DOMAIN result /\ result.error \notin {<<>>, <<"No vulnerabilities found">>}

\* if (inputData.error)
HasError(result) == "error" \in DOMAIN result /\ result.error # <<>>

\* `Error occurred: ${inputData.error}. Please verify the repository URL or ensure package.json exists.`
Diagnostic(error) ==
    <<"Error occurred: ">> \o error
        \o <<". Please verify the repository URL or ensure package.json exists.">>

AccumulateOverwrite(text, chunk) == chunk

\* report += chunk
Accumulate(text, chunk) == text \o chunk

\* fragments of the narrator's textStream
Fragments == { <<"The repository is healthy. ">>, <<"Upgrade the vulnerable packages. ">> }


(***************************************************************************)
(* Initial state: a run of healthWorkflow about to start                   *)
(***************************************************************************)
Init ==
    /\ pc = "start"
    /\ \E scenario \in Scenarios :
          /\ inputUrl = scenario[1]
          /\ served = scenario[2]
          /\ osv = scenario[3]
    /\ repoUrl = <<>>
    /\ packageUrl = <<>>
    /\ retries = 0
    /\ json = Undefined
    /\ limitedDeps = <<>>
    /\ depIdx = 0
    /\ findings = <<>>
    /\ scanResult = Pending
    /\ report = <<>>
    /\ stdout = <<>>
    /\ getUrls = <<>>
    /\ getAnswers = <<>>
    /\ queried = <<>>
    /\ postsThisDep = 0
    /\ okThisDep = FALSE
    /\ okDeps = {}
    /\ postCount = 0
    /\ postsAnswered = 0
    /\ lastPostAnswer = Unanswered
    /\ narratorCalls = 0
    /\ narratorInput = <<>>
    /\ chunks = <<>>
    /\ faults = 0

\* scanRepo returns result to the workflow, which passes it to explainVulnerabilities
Return(result) ==
    /\ scanResult' = result
    /\ pc' = "scanned"

\* axios.get(packageUrl, { timeout: 15000 }) is issued
IssueGet(url) ==
    /\ getUrls' = Append(getUrls, url)
    /\ pc' = "get"

\* the first axios.post of the retry loop for limitedDeps[k]: retries = 3
IssueFirstPost(deps, k) ==
    /\ depIdx' = k
    /\ retries' = OsvAttempts
    /\ queried' = Append(queried, QueryBody(deps[k]))
    /\ postsThisDep' = 1
    /\ okThisDep' = FALSE
    /\ postCount' = postCount + 1
    /\ pc' = "post"

\* if (!repoUrl.endsWith("/")) repoUrl += "/"
WithTrailingSlash(url) == IF EndsWith(url, Slash) THEN url ELSE url \o Slash

\* scanRepo.execute and healthTool.execute up to the first GET (lines 47-74)
Start ==
    /\ pc = "start"
    /\ IF inputUrl = <<>>
       THEN /\ Return(Failure(MissingRepoUrl))
            /\ UNCHANGED << repoUrl, packageUrl, retries, getUrls >>
       ELSE \E url \in { WithTrailingSlash(sanitizeInput(inputUrl)) } :
                /\ repoUrl' = url
                /\ IF ~HasMatch(url)
                   THEN /\ Return(Failure(InvalidRepoUrl(url)))
                        /\ UNCHANGED << packageUrl, retries, getUrls >>
                   ELSE \E target \in { PackageUrl(MatchGroups(url)) } :
                        /\ packageUrl' = target
                        /\ retries' = FetchAttempts
                        /\ IssueGet(target)
                        /\ UNCHANGED scanResult
    /\ UNCHANGED << inputUrl, served, json, limitedDeps, depIdx, findings, report, stdout, osv,
                    getAnswers, queried, postsThisDep, okThisDep, okDeps, postCount, postsAnswered, lastPostAnswer, narratorCalls,
                    narratorInput, chunks, faults >>

RetryFetchAnyFailure(n, error) ==
    n > 1

\* retries > 1 && (error instanceof AxiosError && error.response?.status === 504)
RetryFetch(n, error) ==
    n > 1 /\ error.kind = "AxiosError" /\ error.status = GatewayTimeout

\* the GET is answered 2xx with body data: lines 75-77, then 90-117
GetOk ==
    /\ pc = "get"
    /\ getAnswers' = Append(getAnswers, Ok)
    /\ json' = served
    /\ IF Falsy(served)
       THEN /\ Return(Failure(AfterRetries))
            /\ UNCHANGED << limitedDeps, depIdx, retries, queried, postsThisDep,
                            okThisDep, postCount >>
       ELSE \E dependencies \in { MergeDependencies(served) } :
               IF Len(dependencies) = 0
               THEN /\ Return(Failure(NoDependencies))
                    /\ UNCHANGED << limitedDeps, depIdx, retries, queried, postsThisDep,
                                    okThisDep, postCount >>
               ELSE \E limited \in { LimitedDeps(dependencies) } :
                       /\ limitedDeps' = limited
                       /\ IssueFirstPost(limited, 1)
                       /\ UNCHANGED scanResult
    /\ UNCHANGED << inputUrl, served, repoUrl, packageUrl, findings, report, stdout, osv, getUrls,
                    okDeps, postsAnswered, lastPostAnswer, narratorCalls, narratorInput, chunks, faults >>

\* the GET fails: the catch block, lines 78-88
GetFail ==
    /\ pc = "get"
    /\ faults < MaxFaults
    /\ faults' = faults + 1
    /\ \E error \in GetErrors :
        /\ getAnswers' = Append(getAnswers, error)
        /\ IF RetryFetch(retries, error)
           THEN /\ pc' = "getDelay"
                /\ UNCHANGED scanResult
           ELSE Return(Failure(FetchFailed(getErrorMessage(error))))
    /\ UNCHANGED << inputUrl, served, repoUrl, packageUrl, retries, json, limitedDeps, depIdx,
                    findings, report, stdout, osv, getUrls, queried, postsThisDep, okThisDep,
                    okDeps, postCount, postsAnswered, lastPostAnswer, narratorCalls, narratorInput, chunks >>

\* delay(2000) is over: retries--; continue (lines 83-84, 71-74, 90-92)
GetDelayDone ==
    /\ pc = "getDelay"
    /\ retries' = retries - 1
    /\ IF retries - 1 > 0
       THEN /\ IssueGet(packageUrl)
            /\ UNCHANGED scanResult
       ELSE /\ Return(Failure(AfterRetries))
            /\ UNCHANGED getUrls
    /\ UNCHANGED << getAnswers, inputUrl, served, repoUrl, packageUrl, json, limitedDeps, depIdx, findings,
                    report, stdout, osv, queried, postsThisDep, okThisDep, okDeps, postCount, postsAnswered, lastPostAnswer,
                    narratorCalls, narratorInput, chunks, faults >>

PushFindingPerMatch(f, dep, data) ==
    f \o [k \in 1..Len(Vulns(data)) |-> Finding(dep, << Vulns(data)[k] >>)]

\* the findings after a 2xx answer with body data for dep (lines 126-137)
PushFinding(f, dep, data) ==
    IF Len(Vulns(data)) > 0 THEN Append(f, Finding(dep, Vulns(data))) ELSE f

\* the POST is answered 2xx with the database's record: lines 126-138, then delay(200)
PostOk ==
    /\ pc = "post"
    /\ findings' = PushFinding(findings, limitedDeps[depIdx], osv[limitedDeps[depIdx].name])
    /\ okThisDep' = TRUE
    /\ postsAnswered' = postsAnswered + 1
    /\ lastPostAnswer' = Ok
    /\ okDeps' = okDeps \cup {depIdx}
    /\ pc' = "pause"
    /\ UNCHANGED << getAnswers, inputUrl, served, repoUrl, packageUrl, retries, json, limitedDeps, depIdx,
                    scanResult, report, stdout, osv, getUrls, queried, postsThisDep,
                    postCount, narratorCalls, narratorInput, chunks, faults >>

\* the POST is answered 2xx with a null body: the TypeError is caught at line 139, break at 148
PostOkNull ==
    /\ pc = "post"
    /\ faults < MaxFaults
    /\ faults' = faults + 1
    /\ okThisDep' = TRUE
    /\ postsAnswered' = postsAnswered + 1
    /\ lastPostAnswer' = NullDataError
    /\ pc' = "pause"
    /\ UNCHANGED << getAnswers, inputUrl, served, repoUrl, packageUrl, retries, json, limitedDeps, depIdx,
                    findings, scanResult, report, stdout, osv, getUrls, queried,
                    postsThisDep, okDeps, postCount, narratorCalls, narratorInput, chunks >>

RetryOsvNever(n, error) ==
    FALSE

\* error instanceof AxiosError && error.response?.status === 429 && retries > 1
RetryOsv(n, error) ==
    error.kind = "AxiosError" /\ error.status = TooManyRequests /\ n > 1

OsvCatchRethrow(n, error) ==
    IF error.kind = "AxiosError" /\ error.status = 429 /\ n > 1 THEN "postDelay" ELSE "raised"

OsvCatchRefetch(n, error) ==
    IF error.kind = "AxiosError" /\ error.status = 429 /\ n > 1 THEN "postDelay" ELSE "get"

\* where the catch block of lines 139-149 leaves the run: delay(1000) and retry, or break
OsvCatch(n, error) ==
    IF RetryOsv(n, error) THEN "postDelay" ELSE "pause"

\* the POST fails: the catch block, lines 139-149
PostFail ==
    /\ pc = "post"
    /\ faults < MaxFaults
    /\ faults' = faults + 1
    /\ postsAnswered' = postsAnswered + 1
    /\ \E error \in PostErrors :
        /\ lastPostAnswer' = error
        /\ pc' = OsvCatch(retries, error)
    /\ UNCHANGED << getAnswers, inputUrl, served, repoUrl, packageUrl, retries, json, limitedDeps, depIdx,
                    findings, scanResult, report, stdout, osv, getUrls, queried,
                    postsThisDep, okThisDep, okDeps, postCount, narratorCalls,
                    narratorInput, chunks >>

\* delay(1000) is over: retries--; continue (lines 144-145, 114-117)
PostDelayDone ==
    /\ pc = "postDelay"
    /\ retries' = retries - 1
    /\ IF retries - 1 > 0
       THEN /\ postsThisDep' = postsThisDep + 1
            /\ postCount' = postCount + 1
            /\ pc' = "post"
       ELSE /\ pc' = "pause"
            /\ UNCHANGED << postsThisDep, postCount >>
    /\ UNCHANGED << getAnswers, inputUrl, served, repoUrl, packageUrl, json, limitedDeps, depIdx, findings,
                    scanResult, report, stdout, osv, getUrls, queried, okThisDep, okDeps, postsAnswered, lastPostAnswer,
                    narratorCalls, narratorInput, chunks, faults >>

\* delay(200) is over: the next dependency, or the return of line 155
PauseDone ==
    /\ pc = "pause"
    /\ IF depIdx < Len(limitedDeps)
       THEN /\ IssueFirstPost(limitedDeps, depIdx + 1)
            /\ UNCHANGED scanResult
       ELSE /\ Return(ScanReturn(findings))
            /\ UNCHANGED << depIdx, retries, queried, postsThisDep, okThisDep, postCount >>
    /\ UNCHANGED << getAnswers, inputUrl, served, repoUrl, packageUrl, json, limitedDeps, findings, report,
                    stdout, osv, getUrls, okDeps, postsAnswered, lastPostAnswer, narratorCalls, narratorInput, chunks, faults >>

\* explainVulnerabilities.execute up to healthAgent.stream (lines 57-75)
Explain ==
    /\ pc = "scanned"
    /\ IF HasError(scanResult)
       THEN /\ report' = Diagnostic(scanResult.error)
            /\ pc' = "done"
            /\ UNCHANGED << narratorCalls, narratorInput >>
       ELSE /\ narratorCalls' = narratorCalls + 1
            /\ narratorInput' = scanResult.findings
            /\ pc' = "streamCall"
            /\ UNCHANGED report
    /\ UNCHANGED << getAnswers, inputUrl, served, repoUrl, packageUrl, retries, json, limitedDeps, depIdx,
                    findings, scanResult, stdout, osv, getUrls, queried, postsThisDep,
                    okThisDep, okDeps, postCount, postsAnswered, lastPostAnswer, chunks, faults >>

\* healthAgent.stream resolves: let report = "" (line 77)
StreamCallOk ==
    /\ pc = "streamCall"
    /\ report' = <<>>
    /\ pc' = "streaming"
    /\ UNCHANGED << getAnswers, inputUrl, served, repoUrl, packageUrl, retries, json, limitedDeps, depIdx,
                    findings, scanResult, stdout, osv, getUrls, queried, postsThisDep,
                    okThisDep, okDeps, postCount, postsAnswered, lastPostAnswer, narratorCalls, narratorInput, chunks, faults >>

\* healthAgent.stream rejects, or textStream throws: nothing catches it
NarratorFail ==
    /\ pc \in {"streamCall", "streaming"}
    /\ pc' = "raised"
    /\ UNCHANGED << getAnswers, inputUrl, served, repoUrl, packageUrl, retries, json, limitedDeps, depIdx,
                    findings, scanResult, report, stdout, osv, getUrls, queried,
                    postsThisDep, okThisDep, okDeps, postCount, postsAnswered, lastPostAnswer, narratorCalls,
                    narratorInput, chunks, faults >>

\* one turn of the for await loop (lines 78-81)
StreamChunk ==
    /\ pc = "streaming"
    /\ Len(chunks) < MaxChunks
    /\ \E chunk \in Fragments :
        /\ stdout' = stdout \o chunk
        /\ report' = Accumulate(report, chunk)
        /\ chunks' = Append(chunks, chunk)
    /\ UNCHANGED << getAnswers, pc, inputUrl, served, repoUrl, packageUrl, retries, json, limitedDeps, depIdx,
                    findings, scanResult, osv, getUrls, queried, postsThisDep, okThisDep,
                    okDeps, postCount, postsAnswered, lastPostAnswer, narratorCalls, narratorInput, faults >>

\* textStream is exhausted: return { report } (line 83)
StreamEnd ==
    /\ pc = "streaming"
    /\ pc' = "done"
    /\ UNCHANGED << getAnswers, inputUrl, served, repoUrl, packageUrl, retries, json, limitedDeps, depIdx,
                    findings, scanResult, report, stdout, osv, getUrls, queried,
                    postsThisDep, okThisDep, okDeps, postCount, postsAnswered, lastPostAnswer, narratorCalls,
                    narratorInput, chunks, faults >>

Next ==
    \/ Start
    \/ GetOk
    \/ GetFail
    \/ GetDelayDone
    \/ PostOk
    \/ PostOkNull
    \/ PostFail
    \/ PostDelayDone
    \/ PauseDone
    \/ Explain
    \/ StreamCallOk
    \/ NarratorFail
    \/ StreamChunk
    \/ StreamEnd

Spec == Init /\ [][Next]_vars

\* every await of the code is eventually resumed
FairSpec == Spec /\ WF_vars(Next)

TypeOK ==
    pc \in {"start", "get", "getDelay", "post", "postDelay", "pause", "scanned",
            "streamCall", "streaming", "done", "raised"}


(***************************************************************************)
(* Claims                                                                  *)
(***************************************************************************)
\* scanRepo has returned
ScanFinished == pc \in {"scanned", "streamCall", "streaming", "done", "raised"}

\* the lookup loop has run to its end
LookupFinished == ScanFinished /\ limitedDeps # <<>>

RECURSIVE Flatten(_)
Flatten(texts) == IF texts = <<>> THEN <<>> ELSE Head(texts) \o Flatten(Tail(texts))

\* every GET issued so far has been answered, and answered 504
EveryGetAnswered504 ==
    /\ getAnswers # <<>>
    /\ Len(getAnswers) = Len(getUrls)
    /\ \A k \in 1..Len(getAnswers) :
          getAnswers[k].kind = "AxiosError" /\ getAnswers[k].status = 504

\* C1: when every GET of the manifest is answered 504, exactly 3 GETs are issued and the
\* scan stage returns "Failed to fetch package.json after retries" with no findings.
C1_Exhausted504ReturnsAfterRetries ==
    (ScanFinished /\ EveryGetAnswered504)
        => /\ Len(getUrls) = 3
           /\ scanResult = [findings |-> <<>>,
                            error |-> <<"Failed to fetch package.json", " after retries">>]

\* C2: when explainVulnerabilities receives a populated error slot, the report is exactly
\* the fixed diagnostic embedding that error (after a 404 it contains "Failed to fetch
\* package.json") and the narrator is never invoked in that run.
C2_ErrorShortCircuitsToDiagnostic ==
    (ScanFinished /\ "error" \in DOMAIN scanResult /\ scanResult.error # <<>>)
        => /\ narratorCalls = 0
           /\ pc \in {"scanned", "done"}
           /\ pc = "done" =>
                /\ report = <<"Error occurred: ">> \o scanResult.error
                     \o <<". Please verify the repository URL or ensure package.json exists.">>
                /\ (getAnswers # <<>> /\ getAnswers[Len(getAnswers)].status = 404)
                     => Contains(report, <<"Failed to fetch package.json">>)

\* a 404 on the manifest GET ended in the diagnostic report, the narrator never invoked
C2_Witness ==
    /\ pc = "done"
    /\ getAnswers # <<>>
    /\ getAnswers[Len(getAnswers)].status = 404
    /\ Contains(report, <<"Failed to fetch package.json", ": ", "Request failed with status code 404">>)
    /\ narratorCalls = 0

\* every retained dependency was answered 2xx and the database has no match for any of them
CleanScan ==
    /\ LookupFinished
    /\ okDeps = 1..Len(limitedDeps)
    /\ \A k \in 1..Len(limitedDeps) : Len(Vulns(osv[limitedDeps[k].name])) = 0

\* C3: for a manifest with at least one dependency for which the database returns no match
\* for any queried dependency, the scan has zero findings and the report is the narrator's
\* text: the narrator is invoked with the empty findings list.
C3_CleanScanIsNarrated ==
    (pc = "done" /\ CleanScan)
        => /\ scanResult.findings = <<>>
           /\ narratorCalls = 1
           /\ narratorInput = <<>>
           /\ report = Flatten(chunks)

\* C4: a repository URL that does not hold github.com/<owner>/<repo> fails with "Invalid
\* GitHub repo URL" and the run issues no GET and no POST.
C4_MalformedUrlIssuesNoCall ==
    ~HasMatch(inputUrl)
        => /\ getUrls = <<>>
           /\ postCount = 0
           /\ ScanFinished =>
                /\ scanResult.findings = <<>>
                /\ "error" \in DOMAIN scanResult
                /\ Contains(scanResult.error, <<"Invalid GitHub repo URL: ">>)

\* C5: a GET that fails with anything other than HTTP 504 is the last GET of the run: the
\* scan stage returns "Failed to fetch package.json: <message>" with no findings, and no
\* vulnerability query is issued.
C5_Non504FailureIsTerminal ==
    \A k \in 1..Len(getAnswers) :
        (getAnswers[k].kind # "Response" /\ getAnswers[k].status # 504)
            => /\ k = Len(getUrls)
               /\ ScanFinished
               /\ scanResult = [findings |-> <<>>,
                                error |-> <<"Failed to fetch package.json", ": ">>
                                            \o getErrorMessage(getAnswers[k])]
               /\ postCount = 0

\* a 504 was retried, the second GET failed with a network error, and the scan returned at once
C5_Witness ==
    /\ pc = "scanned"
    /\ Len(getAnswers) = 2
    /\ getAnswers[1].status = 504
    /\ getAnswers[2] = AxiosErr(0, <<>>, <<"Network Error">>)
    /\ scanResult.error = <<"Failed to fetch package.json", ": ", "Network Error">>


\* the names of the entries of a map, in order
Names(map) == [k \in 1..Len(map) |-> map[k].name]

\* the manifest's map has more entries than the cap
LongMap == json.kind = "object" /\ Len(MergeDependencies(json)) > 10

\* C6 as stated: of a merged map of more than 10 entries, exactly the first 10 in the
\* manifest's declared order (dependencies, then the new keys of devDependencies) are queried.
C6_FirstTenAsDeclared ==
    LET declared == Names(MergeDependencies(json))
    IN  LongMap
          => /\ Len(queried) <= 10
             /\ Names(queried) = SubSeq(declared, 1, Len(queried))
             /\ LookupFinished => Len(queried) = 10

\* C6 amended: of a merged map of more than 10 entries, exactly the first 10 in the map's
\* enumeration order (array-index keys ascending, then the other keys as declared) are
\* queried, each once, whatever retries and failures happen; no other entry is ever queried.
C6_FirstTenAsEnumerated ==
    LET enumerated == Names(ObjectEntries(MergeDependencies(json)))
    IN  LongMap
          => /\ Len(queried) <= 10
             /\ depIdx = Len(queried)
             /\ Names(queried) = SubSeq(enumerated, 1, Len(queried))
             /\ LookupFinished => Len(queried) = 10

\* 11 entries were declared, the lookup loop ended after retries and a failure, and 10 were queried
C6_Witness ==
    /\ LookupFinished
    /\ Len(MergeDependencies(json)) > 10
    /\ Len(queried) = 10
    /\ postCount > 10
    /\ okDeps # 1..10

\* C7: a dependency's query answered 429 is retried at most twice (at most 3 POSTs for the
\* dependency, the budget being reset for every dependency), and once a POST for the
\* dependency is answered 2xx no further POST is issued for it.
C7_OsvRetryBudget ==
    /\ postsThisDep <= 3
    /\ pc = "post" => postsThisDep = 4 - retries
    /\ okThisDep => pc \notin {"post", "postDelay"}
    /\ depIdx = Len(queried)
    /\ \A j, k \in 1..Len(queried) : queried[j].name = queried[k].name => j = k

\* the second dependency succeeded on its third POST after the first needed one retry
C7_Witness ==
    /\ pc = "pause"
    /\ depIdx = 2
    /\ postsThisDep = 3
    /\ okThisDep
    /\ postCount = 5

\* the messages of the failures a vulnerability query can end with
OsvFailureMessages == { getErrorMessage(e) : e \in PostErrors \cup {NullDataError} }

\* C8: a failed lookup aborts only that dependency: every retained dependency is still
\* queried, the scan stage raises nothing, the failed dependency has no Finding, and the
\* failure's message is not in the scan result's error slot.
C8_LookupFailureIsSkipped ==
    /\ pc = "raised" => narratorCalls = 1
    /\ \A k \in (1..Len(queried)) \ okDeps :
          \A i \in 1..Len(findings) : findings[i].package # limitedDeps[k].name
    /\ LookupFinished =>
          /\ Names(queried) = Names(limitedDeps)
          /\ scanResult.findings = findings
          /\ \A m \in OsvFailureMessages :
                "error" \in DOMAIN scanResult => ~Contains(scanResult.error, m)

\* of three dependencies the second failed (429 on all three attempts); the third was still
\* queried and the scan returned the first one's Finding
C8_Witness ==
    /\ pc = "scanned"
    /\ Len(limitedDeps) = 3
    /\ okDeps = {1, 3}
    /\ postCount = 5
    /\ Len(scanResult.findings) = 1
    /\ "error" \notin DOMAIN scanResult

\* the matches the database holds for limitedDeps[k]
Matches(k) ==
    IF "vulns" \in DOMAIN osv[limitedDeps[k].name] THEN osv[limitedDeps[k].name].vulns ELSE <<>>

\* C9: a dependency whose query was answered with one or more matches has exactly one
\* Finding, holding all match ids in order and the first match's summary or "No summary";
\* a dependency answered with no match has none.
C9_OneFindingPerVulnerableDependency ==
    LET hits == { k \in okDeps : Len(Matches(k)) > 0 }
    IN  /\ Len(findings) = Cardinality(hits)
        /\ \A k \in hits :
              \E i \in 1..Len(findings) :
                 /\ findings[i].package = limitedDeps[k].name
                 /\ \A j \in 1..Len(findings) : findings[j].package = limitedDeps[k].name => j = i
                 /\ findings[i].cves = [m \in 1..Len(Matches(k)) |-> Matches(k)[m].id]
                 /\ findings[i].summary =
                       IF "summary" \in DOMAIN Matches(k)[1] /\ Matches(k)[1].summary # <<>>
                       THEN Matches(k)[1].summary
                       ELSE <<"No summary">>
        /\ \A k \in okDeps \ hits :
              \A i \in 1..Len(findings) : findings[i].package # limitedDeps[k].name

\* after a retried query, one Finding holds two ids and the placeholder, another a summary
C9_Witness ==
    /\ LookupFinished
    /\ postCount > Len(queried)
    /\ \E i \in 1..Len(findings) :
          Len(findings[i].cves) = 2 /\ findings[i].summary = <<"No summary">>
    /\ \E i \in 1..Len(findings) :
          Len(findings[i].cves) = 1 /\ findings[i].summary = <<"Prototype pollution">>

\* C10: every run terminates, and it ends with a report unless the narrator was invoked
\* and failed: whatever happens in the scan stage, nothing else ends a run.
C10_RunEndsWithReport ==
    <>(pc = "done" \/ (pc = "raised" /\ narratorCalls = 1 /\ "findings" \in DOMAIN scanResult))

\* a run with failed fetch attempts and failed lookups ended with a report, without the narrator
C10_Witness ==
    /\ pc = "done"
    /\ Len(getAnswers) >= 2
    /\ faults >= 2
    /\ limitedDeps # <<>>
    /\ okDeps # 1..Len(limitedDeps)
    /\ narratorCalls = 0
    /\ report # <<>>

\* the GET was answered with a manifest object that declares no dependency at all
NothingDeclared ==
    /\ json.kind = "object"
    /\ ("dependencies" \in DOMAIN json => json.dependencies = <<>>)
    /\ ("devDependencies" \in DOMAIN json => json.devDependencies = <<>>)

\* C11: when the manifest is fetched but its merged dependencies + devDependencies map is
\* empty or absent, the scan stage returns "No dependencies found in package.json" with no
\* findings, no vulnerability query is issued, and the report stage handles it like a fetch
\* failure: the report is the fixed diagnostic and the narrator is not invoked.
C11_NoDependenciesIsDiagnosed ==
    NothingDeclared
        => /\ scanResult = [findings |-> <<>>,
                            error |-> <<"No dependencies found in package.json">>]
           /\ postCount = 0
           /\ queried = <<>>
           /\ narratorCalls = 0
           /\ pc \in {"scanned", "done"}
           /\ pc = "done" =>
                report = <<"Error occurred: ", "No dependencies found in package.json",
                           ". Please verify the repository URL or ensure package.json exists.">>

\* after a retried 504 the manifest came without either map, and the run ended with the diagnostic
C11_Witness ==
    /\ pc = "done"
    /\ json = [kind |-> "object"]
    /\ Len(getAnswers) = 2
    /\ getAnswers[2] = Ok
    /\ Contains(report, <<"No dependencies found in package.json">>)
    /\ postCount = 0

\* the declared version without the run of ^ and ~ it starts with
StripLeadingMarkers(v) ==
    LET rest == { k \in 1..Len(v) : v[k] \notin {"^", "~"} }
    IN  IF rest = {} THEN <<>>
        ELSE SubSeq(v, CHOOSE k \in rest : \A j \in rest : k <= j, Len(v))

\* C12: the version sent to the vulnerability database is the declared version with its
\* leading range markers (^ or ~) stripped and everything else unchanged: "^2.1.0" is sent
\* as "2.1.0", "~1.0.3" as "1.0.3", and a ^ or ~ that is not at the start is not removed.
C12_OnlyLeadingMarkersStripped ==
    \A k \in 1..Len(queried) :
        /\ queried[k].version = StripLeadingMarkers(limitedDeps[k].version)
        /\ limitedDeps[k].version = <<"^", "2.1.0">> => queried[k].version = <<"2.1.0">>
        /\ limitedDeps[k].version = <<"~", "1.0.3">> => queried[k].version = <<"1.0.3">>

\* the GET target the claim expects for owner, repo and branch
RawManifestUrl(owner, repo, branch) ==
    <<"https://raw.githubusercontent.com/">> \o owner \o <<"/">> \o repo \o <<"/">>
        \o branch \o <<"/package.json">>

\* path segments the repository URLs of the model are built from
UrlSegments == { SegA, SegB, SegDev, SegTree }

OutstandingGets == Len(getUrls) - Len(getAnswers)
OutstandingPosts == postCount - postsAnswered

\* C15: at most one network request is outstanding at any time, POSTs are issued in the order
\* of the retained dependencies, and the loop moves to the next dependency only when the
\* current one is finished: nothing outstanding, and after a 429 all 3 attempts were made.
C15_OneDependencyAtATime ==
    [][ /\ OutstandingGets' \in {0, 1}
        /\ OutstandingPosts' \in {0, 1}
        /\ OutstandingGets' + OutstandingPosts' <= 1
        /\ OutstandingGets' = 1 <=> pc' = "get"
        /\ OutstandingPosts' = 1 <=> pc' = "post"
        /\ postCount' # postCount =>
              /\ postCount' = postCount + 1
              /\ OutstandingPosts = 0 /\ OutstandingGets' = 0
              /\ depIdx' \in {depIdx, depIdx + 1}
              /\ Len(queried') = depIdx'
        /\ depIdx' # depIdx =>
              /\ depIdx' = depIdx + 1
              /\ pc' = "post"
              /\ depIdx > 0 =>
                    /\ pc = "pause"
                    /\ lastPostAnswer.kind # "none"
                    /\ lastPostAnswer.status = 429 => postsThisDep = 3
      ]_vars

\* the first dependency was answered 429 three times; only then was the second one queried
C15_Witness ==
    /\ pc = "post"
    /\ depIdx = 2
    /\ postCount = 4
    /\ postsAnswered = 3
    /\ lastPostAnswer.status = 429
    /\ okDeps = {}

\* C16: in every state the findings list is no longer than the number of dependencies
\* processed so far, which is at most the cap of 10; a processed dependency adds at most one
\* Finding however many attempts it took.
C16_FindingsBoundedByProcessed ==
    /\ Len(findings) <= depIdx
    /\ depIdx <= Len(limitedDeps)
    /\ Len(limitedDeps) <= 10
    /\ pc \in {"post", "postDelay"} => Len(findings) <= depIdx - 1
    /\ \A i, j \in 1..Len(findings) : findings[i].package = findings[j].package => i = j
    /\ \A i \in 1..Len(findings) : \E k \in 1..depIdx : limitedDeps[k].name = findings[i].package

\* a manifest of more than 10 entries was scanned to the cap with retries; 3 of the 10 have a Finding
C16_Witness ==
    /\ LookupFinished
    /\ Len(MergeDependencies(json)) > 10
    /\ depIdx = 10
    /\ postCount > 10
    /\ Len(findings) = 3

\* C17: when the lookup loop has completed, the error slot of the scan result holds
\* "No vulnerabilities found" if and only if the findings list is empty; with at least one
\* Finding the error slot is absent.
C17_SentinelIffNoFindings ==
    LookupFinished =>
        /\ scanResult.findings = findings
        /\ findings = <<>> =>
              "error" \in DOMAIN scanResult /\ scanResult.error = <<"No vulnerabilities found">>
        /\ findings # <<>> => "error" \notin DOMAIN scanResult
        /\ ("error" \in DOMAIN scanResult /\ scanResult.error = <<"No vulnerabilities found">>)
              => findings = <<>>

\* two Findings were returned although one lookup failed: the error slot is absent
C17_Witness ==
    /\ pc = "scanned"
    /\ limitedDeps # <<>>
    /\ Len(scanResult.findings) = 2
    /\ okDeps # 1..Len(limitedDeps)
    /\ DOMAIN scanResult = {"findings"}

\* C18: while the narrator streams, after each fragment the accumulated report is the
\* concatenation, in arrival order, of the fragments received so far, and so is what was
\* written to stdout; the final report is the concatenation of all fragments.
C18_ReportIsConcatenationOfFragments ==
    /\ pc \in {"streaming", "done", "raised"} /\ narratorCalls = 1 =>
          /\ report = Flatten(chunks)
          /\ stdout = Flatten(chunks)
          /\ Len(report) = Len(chunks)
          /\ \A k \in 1..Len(chunks) : report[k] = chunks[k][1]
    /\ narratorCalls = 0 => chunks = <<>> /\ stdout = <<>>

\* the stream delivered the same fragment twice, and the finished report holds it twice
C18_Witness ==
    /\ pc = "done"
    /\ narratorCalls = 1
    /\ Len(chunks) = 2
    /\ chunks[1] = chunks[2]
    /\ report = chunks[1] \o chunks[2]
    /\ stdout = report

\* explainVulnerabilities has run past its error check
Explained == pc \in {"streamCall", "streaming", "done", "raised"}

BrokenScan ==
    /\ LookupFinished
    /\ okDeps = {}

\* C20: for any manifest, a run in which every vulnerability query fails and a run in which
\* every query succeeds with zero matches give the same scan result and the same report: both
\* are the one value that depends on neither the manifest nor the failures.
C20_BrokenScanLooksClean ==
    (BrokenScan \/ CleanScan) =>
        /\ scanResult = [findings |-> <<>>, error |-> <<"No vulnerabilities found">>]
        /\ pc \in {"scanned", "done"}
        /\ narratorCalls = 0
        /\ stdout = <<>>
        /\ pc = "done" =>
              report = <<"Error occurred: ", "No vulnerabilities found",
                         ". Please verify the repository URL or ensure package.json exists.">>

\* all three queries failed against a database that holds matches for two of the packages,
\* and the run ended with the report of a clean scan
C20_Witness ==
    /\ pc = "done"
    /\ Len(limitedDeps) = 3
    /\ okDeps = {}
    /\ postsAnswered = 3
    /\ osv = MixedDb
    /\ Contains(report, <<"No vulnerabilities found">>)


====
